---- MODULE Spec2Model ----
\* A model of HttpClient (src/src/lib/http.ts): the attempt / retry loop of
\* request(), its per-attempt abort timer, the randomized backoff, header
\* construction and body parsing.  One frame per logical call; the awaits of
\* request() are the frame's positions (pc).
EXTENDS Integers, Sequences, FiniteSets, TLC

VARIABLES engine, heap, constructed, call, probe

vars == <<engine, heap, constructed, call, probe>>

\* ---------------------------------------------------------------- bounds

\* Largest value of the `retries` option explored.
MaxRetries == 2

\* Largest attempt index handed to backoff() on its own (SpecBackoff).
MaxProbeAttempt == 7

\* Math.random() is modelled as k / RandDen for a sample of numerators k.
RandDen == 8192

\* ------------------------------------------------------------- constants

BackoffBase == 300
BackoffCap == 4000

\* `status?: number` left undefined.
NoStatus == 0

Calls == {"c1", "c2"}

Max(a, b) == IF a >= b THEN a ELSE b
Min(a, b) == IF a <= b THEN a ELSE b

\* ------------------------------------------------------- values and errors

NoResponse == [data |-> "none", status |-> NoStatus]

\* An error value: what the catch clause can see of it.
ErrorValue(name, status, response, isError) ==
    [name |-> name, status |-> status, response |-> response, isError |-> isError]

\* new HTTPError(message, status, response)
HTTPError(status, response) == ErrorValue("HTTPError", status, response, TRUE)

AbortError == ErrorValue("AbortError", NoStatus, NoResponse, TRUE)
TypeError == ErrorValue("TypeError", NoStatus, NoResponse, TRUE)
FetchError == ErrorValue("FetchError", NoStatus, NoResponse, TRUE)
SyntaxError == ErrorValue("SyntaxError", NoStatus, NoResponse, TRUE)
OtherError == ErrorValue("Error", NoStatus, NoResponse, TRUE)
\* A thrown value that is no Error object (and `lastError` before any catch).
NonError == ErrorValue("none", NoStatus, NoResponse, FALSE)

\* ------------------------------------------------------------------ headers

\* A plain object (Record<string, string>) is a sequence of entries in
\* insertion order; a Headers object maps lower-cased names to values.

\* Header names are case-insensitive in Headers: the name as Headers keeps it.
Lower(k) ==
    CASE k = "Authorization" -> "authorization"
      [] k = "Content-Type" -> "content-type"
      [] k = "X-Request-Id" -> "x-request-id"
      [] OTHER -> k

HasKey(obj, k) == \E i \in 1..Len(obj) : obj[i].k = k

ValueOf(obj, k) == obj[CHOOSE i \in 1..Len(obj) : obj[i].k = k].v

\* { ...a, ...b }: keys compared exactly; b wins, a's position is kept.
Spread(a, b) ==
    [i \in 1..Len(a) |->
        IF HasKey(b, a[i].k) THEN [k |-> a[i].k, v |-> ValueOf(b, a[i].k)] ELSE a[i]]
    \o SelectSeq(b, LAMBDA e : ~HasKey(a, e.k))

EmptyHeaders == [n \in {} |-> ""]

HeadersHas(h, name) == Lower(name) \in DOMAIN h

HeadersGet(h, name) == IF HeadersHas(h, name) THEN h[Lower(name)] ELSE ""

HeadersSet(h, name, v) ==
    [n \in DOMAIN h \cup {Lower(name)} |-> IF n = Lower(name) THEN v ELSE h[n]]

\* Headers.append: a second value under one name is joined with ", ".
HeadersAppend(h, name, v) ==
    [n \in DOMAIN h \cup {Lower(name)} |->
        IF n = Lower(name)
        THEN IF n \in DOMAIN h THEN h[n] \o ", " \o v ELSE v
        ELSE h[n]]

RECURSIVE NewHeadersFrom(_, _)
NewHeadersFrom(h, obj) ==
    IF obj = <<>> THEN h
    ELSE NewHeadersFrom(HeadersAppend(h, Head(obj).k, Head(obj).v), Tail(obj))

\* new Headers(obj)
NewHeaders(obj) == NewHeadersFrom(EmptyHeaders, obj)

\* authToken?: string | null
NullToken == "<null>"
Truthy(token) == token /= NullToken /\ token /= ""

Bearer(token) == "Bearer " \o token

\* this.defaultHeaders: the engine holds a reference to the object it was given.
DefaultHeaders == heap[engine.defaultHeaders]

\* buildHeaders with the token written only when no Authorization is present.
BuildHeadersKeepAuthorization(init) ==
    LET h0 == NewHeaders(Spread(DefaultHeaders, init.headers))
        h1 == IF ~HeadersHas(h0, "x-request-id")
              THEN HeadersSet(h0, "x-request-id", "uuid") ELSE h0
        h2 == IF Truthy(init.authToken) /\ ~HeadersHas(h1, "Authorization")
              THEN HeadersSet(h1, "Authorization", Bearer(init.authToken)) ELSE h1
    IN  IF init.json /\ ~HeadersHas(h2, "Content-Type")
        THEN HeadersSet(h2, "Content-Type", "application/json") ELSE h2

\* buildHeaders merging the per-call headers into this.defaultHeaders itself.
DefaultHeadersMergedInPlace(defaults, init) == Spread(defaults, init.headers)

\* What buildHeaders leaves in this.defaultHeaders: the spread copies it.
DefaultHeadersAfterBuild(defaults, init) == defaults

\* The body of buildHeaders, given what this.defaultHeaders holds.
BuildHeadersFrom(defaults, init) ==
    LET h0 == NewHeaders(Spread(defaults, init.headers))
        h1 == IF ~HeadersHas(h0, "x-request-id")
              THEN HeadersSet(h0, "x-request-id", "uuid") ELSE h0
        h2 == IF Truthy(init.authToken)
              THEN HeadersSet(h1, "Authorization", Bearer(init.authToken)) ELSE h1
    IN  IF init.json /\ ~HeadersHas(h2, "Content-Type")
        THEN HeadersSet(h2, "Content-Type", "application/json") ELSE h2

BuildHeaders(init) == BuildHeadersFrom(DefaultHeaders, init)

\* ------------------------------------------------------ retry decisions

\* response.ok
Ok(status) == status >= 200 /\ status <= 299

\* maxAttempts counting one attempt too many.
MaxAttemptsOfOneMore(retries) == Max(1, retries + 2)

\* const maxAttempts = Math.max(1, this.retries + 1)
MaxAttemptsOf(retries) == Max(1, retries + 1)

\* shouldRetry without the last-attempt test.
ShouldRetryAnyAttempt(status, attempt, maxAttempts) ==
    status \in engine.retryStatuses

ShouldRetry(status, attempt, maxAttempts) ==
    status \in engine.retryStatuses /\ attempt < maxAttempts - 1

\* isNetworkError taking every Error object for a network fault.
IsNetworkErrorAnyError(error) == error.isError

IsNetworkError(error) == error.name = "TypeError" \/ error.name = "FetchError"

\* shouldRetryError without the last-attempt test.
ShouldRetryErrorAnyAttempt(error, attempt, maxAttempts) ==
    LET isAbortError == error.name = "AbortError" \/ error.status = 408
    IN  isAbortError \/ IsNetworkError(error)

\* shouldRetryError that does not recognise the abort of a timeout.
ShouldRetryErrorNetworkOnly(error, attempt, maxAttempts) ==
    attempt < maxAttempts - 1 /\ IsNetworkError(error)

ShouldRetryError(error, attempt, maxAttempts) ==
    LET isAbortError == error.name = "AbortError" \/ error.status = 408
    IN  attempt < maxAttempts - 1 /\ (isAbortError \/ IsNetworkError(error))

\* backoff rounding its delay up instead of down.
BackoffRounded(attempt, rand) ==
    LET maxDelay == Min(BackoffCap, BackoffBase * 2^attempt)
    IN  (rand * (maxDelay + 1) + RandDen - 1) \div RandDen

\* backoff's delay, with Math.random() = rand / RandDen
Backoff(attempt, rand) ==
    LET maxDelay == Min(BackoffCap, BackoffBase * 2^attempt)
    IN  (rand * (maxDelay + 1)) \div RandDen

\* parseResponse testing the content type before the 204 status.
ParseResponseContentTypeFirst(response) ==
    IF response.json THEN "json"
    ELSE IF response.status = 204 THEN "undefined"
    ELSE "text"

\* parseResponse: which decoding the response gets
ParseResponse(response) ==
    IF response.status = 204 THEN "undefined"
    ELSE IF response.json THEN "json"
    ELSE "text"

\* --------------------------------------------------------------- frames

\* No Response object yet (before fetch resolves).
NoFetched == [status |-> NoStatus, json |-> FALSE]

NoInit == [headers |-> <<>>, json |-> FALSE, authToken |-> NullToken]

\* The one object the caller passes as options.defaultHeaders.
OptionsDefaultHeaders == "options.defaultHeaders"

NoOutcome == [kind |-> "none", data |-> "none", status |-> NoStatus, error |-> NonError]

\* The frame of a call that has not been made.
IdleFrame ==
    [pc |-> "idle", init |-> NoInit, defaults |-> <<>>, headers |-> EmptyHeaders,
     maxAttempts |-> 0,
     attempt |-> 0, lastError |-> NonError, response |-> NoFetched,
     timers |-> <<>>, sent |-> <<>>, delay |-> 0, log |-> <<>>,
     outcome |-> NoOutcome]

\* What one concluded attempt did: the status received (NoStatus when the
\* exchange failed), the error caught ("none" when nothing was thrown),
\* whether parseResponse was called, and how the attempt left the loop body.
LogEntry(f, errorName, parsed, decision) ==
    [status |-> f.response.status, error |-> errorName, parsed |-> parsed,
     decision |-> decision]

\* setTimeout(() => controller.abort(), ...)
Armed(timers) == Append(timers, [state |-> "pending", clears |-> 0])

\* A loop body that leaves without clearTimeout.
NotCleared(timers, attempt) == timers

\* finally { clearTimeout(timeout) }
Cleared(timers, attempt) ==
    [timers EXCEPT ![attempt + 1] =
        [state |-> IF @.state = "pending" THEN "cleared" ELSE @.state,
         clears |-> @.clears + 1]]

\* for (...; attempt < maxAttempts; ...)
LoopCond(attempt, maxAttempts) == attempt < maxAttempts

\* The loop body up to `await fetch(...)`: a fresh controller and timer, and
\* the exchange issued with the call's headers.
StartAttempt(f, a) ==
    [f EXCEPT !.pc = "fetch", !.attempt = a, !.response = NoFetched, !.delay = 0,
              !.timers = Armed(@), !.sent = Append(@, f.headers)]

\* throw lastError instanceof Error ? lastError : new HTTPError("Request failed")
FallThrough(f) ==
    [f EXCEPT !.pc = "fellthrough", !.response = NoFetched, !.delay = 0,
              !.outcome = [kind |-> "error", data |-> "none", status |-> NoStatus,
                           error |-> IF f.lastError.isError THEN f.lastError
                                     ELSE HTTPError(NoStatus, NoResponse)]]

\* The head of the for loop at attempt index a.
LoopHead(f, a) ==
    IF LoopCond(a, f.maxAttempts) THEN StartAttempt(f, a) ELSE FallThrough(f)

\* this.backoff(attempt) called without await: continue at once.
EnterBackoffNotAwaited(f, errorName, parsed, rand) ==
    LoopHead([f EXCEPT !.log = Append(@, LogEntry(f, errorName, parsed, "retry")),
                       !.timers = Cleared(@, f.attempt)],
             f.attempt + 1)

\* A delay computed from the index of the attempt to come.
EnterBackoffNextIndex(f, errorName, parsed, rand) ==
    [f EXCEPT !.pc = "backoff", !.delay = Backoff(f.attempt + 1, rand),
              !.log = Append(@, LogEntry(f, errorName, parsed, "retry"))]

\* await this.backoff(attempt), entered from the try or the catch block: the
\* finally clause has not run yet.
EnterBackoff(f, errorName, parsed, rand) ==
    [f EXCEPT !.pc = "backoff", !.delay = Backoff(f.attempt, rand),
              !.log = Append(@, LogEntry(f, errorName, parsed, "retry"))]

\* A backoff whose promise never resolves.
StuckInBackoff(f) == f

\* continue, once the backoff has elapsed: finally, attempt++, loop head.
Continue(f) ==
    LoopHead([f EXCEPT !.timers = Cleared(@, f.attempt)], f.attempt + 1)

\* throw out of the catch block, through finally, to the caller.
Throw(f, error, parsed) ==
    [f EXCEPT !.pc = "thrown", !.timers = Cleared(@, f.attempt),
              !.log = Append(@, LogEntry(f, error.name, parsed, "throw")),
              !.outcome = [kind |-> "error", data |-> "none", status |-> NoStatus,
                           error |-> error]]

\* return { data, status, headers }, through finally, to the caller.
Return(f, data) ==
    [f EXCEPT !.pc = "returned", !.timers = Cleared(@, f.attempt),
              !.log = Append(@, LogEntry(f, "none", TRUE, "return")),
              !.outcome = [kind |-> "response", data |-> data,
                           status |-> f.response.status, error |-> NonError]]

\* catch (error) { ... }
Catch(f, error, parsed, rand) ==
    LET g == [f EXCEPT !.lastError = error]
    IN  IF ShouldRetryError(error, f.attempt, f.maxAttempts)
        THEN EnterBackoff(g, error.name, parsed, rand)
        ELSE Throw(g, IF error.isError THEN error ELSE HTTPError(NoStatus, NoResponse),
                   parsed)

\* The try block testing response.ok before shouldRetry.
OnResponseOkFirst(f, response, rand) ==
    LET g == [f EXCEPT !.response = response]
    IN  IF ~Ok(response.status) /\ ShouldRetry(response.status, f.attempt, f.maxAttempts)
        THEN EnterBackoff(g, "none", FALSE, rand)
        ELSE [g EXCEPT !.pc = "parse"]

\* The try block after `await fetch(...)` yields a response.
OnResponse(f, response, rand) ==
    LET g == [f EXCEPT !.response = response]
    IN  IF ShouldRetry(response.status, f.attempt, f.maxAttempts)
        THEN EnterBackoff(g, "none", FALSE, rand)
        ELSE [g EXCEPT !.pc = "parse"]

\* The try block returning the parsed data without testing response.ok.
OnParsedNoOkCheck(f, data, rand) == Return(f, data)

\* The try block after `await this.parseResponse(response)` yields data.
OnParsed(f, data, rand) ==
    IF ~Ok(f.response.status)
    THEN Catch(f, HTTPError(f.response.status,
                            [data |-> data, status |-> f.response.status]),
               TRUE, rand)
    ELSE Return(f, data)

\* One controller shared by every attempt of the call.
AbortedByAnyTimer(f) == \E i \in 1..Len(f.timers) : f.timers[i].state = "fired"

\* The controller of the attempt in progress has been aborted by its timer.
Aborted(f) == f.timers[f.attempt + 1].state = "fired"

\* ---------------------------------------------------------------- actions

\* request(method, path, init) up to its first await.  The URL is taken to be
\* well formed (buildUrl returns); the abort timer may fire at any moment
\* while it is pending, which covers every timeout value.
Request(c, init) ==
    /\ call[c].pc = "idle"
    /\ call' = [call EXCEPT ![c] =
                 LoopHead([IdleFrame EXCEPT !.init = init,
                                            !.defaults = DefaultHeaders,
                                            !.headers = BuildHeaders(init),
                                            !.maxAttempts = MaxAttemptsOf(engine.retries)],
                          0)]
    /\ heap' = [heap EXCEPT ![engine.defaultHeaders] =
                 DefaultHeadersAfterBuild(@, init)]
    /\ UNCHANGED <<engine, constructed, probe>>

\* fetch resolves with a response before the timer fired.
FetchResponse(c, response, rand) ==
    /\ call[c].pc = "fetch"
    /\ ~Aborted(call[c])
    /\ call' = [call EXCEPT ![c] = OnResponse(call[c], response, rand)]
    /\ UNCHANGED <<engine, heap, constructed, probe>>

\* fetch rejects with a fault of the transport.
FetchFault(c, error, rand) ==
    /\ call[c].pc = "fetch"
    /\ ~Aborted(call[c])
    /\ call' = [call EXCEPT ![c] = Catch(call[c], error, FALSE, rand)]
    /\ UNCHANGED <<engine, heap, constructed, probe>>

\* fetch rejects because the attempt's timer aborted it.
FetchAbort(c, rand) ==
    /\ call[c].pc = "fetch"
    /\ Aborted(call[c])
    /\ call' = [call EXCEPT ![c] = Catch(call[c], AbortError, FALSE, rand)]
    /\ UNCHANGED <<engine, heap, constructed, probe>>

\* parseResponse resolves.
ParseOk(c, rand) ==
    /\ call[c].pc = "parse"
    /\ ParseResponse(call[c].response) = "undefined" \/ ~Aborted(call[c])
    /\ call' = [call EXCEPT ![c] =
                 OnParsed(call[c], ParseResponse(call[c].response), rand)]
    /\ UNCHANGED <<engine, heap, constructed, probe>>

\* response.json() / response.text() rejects with a fault of its own.
ParseFault(c, error, rand) ==
    /\ call[c].pc = "parse"
    /\ ParseResponse(call[c].response) /= "undefined"
    /\ ~Aborted(call[c])
    /\ error = SyntaxError => ParseResponse(call[c].response) = "json"
    /\ call' = [call EXCEPT ![c] = Catch(call[c], error, TRUE, rand)]
    /\ UNCHANGED <<engine, heap, constructed, probe>>

\* The body read rejects because the attempt's timer aborted the exchange.
ParseAbort(c, rand) ==
    /\ call[c].pc = "parse"
    /\ ParseResponse(call[c].response) /= "undefined"
    /\ Aborted(call[c])
    /\ call' = [call EXCEPT ![c] = Catch(call[c], AbortError, TRUE, rand)]
    /\ UNCHANGED <<engine, heap, constructed, probe>>

\* The backoff's own timer resolves its promise.
BackoffElapsed(c) ==
    /\ call[c].pc = "backoff"
    /\ call' = [call EXCEPT ![c] = Continue(call[c])]
    /\ UNCHANGED <<engine, heap, constructed, probe>>

\* A pending abort timer fires: () => controller.abort().
TimerFire(c) ==
    /\ \E i \in 1..Len(call[c].timers) :
         /\ call[c].timers[i].state = "pending"
         /\ call' = [call EXCEPT ![c].timers[i].state = "fired"]
    /\ UNCHANGED <<engine, heap, constructed, probe>>

\* The caller writes an entry into the object it passed as defaultHeaders.
CallerSetsDefaultHeader(entry) ==
    /\ heap' = [heap EXCEPT ![OptionsDefaultHeaders] = Spread(@, <<entry>>)]
    /\ UNCHANGED <<engine, constructed, call, probe>>

\* ----------------------------------------------------------------- inputs

DefaultRetryStatuses == {408, 429, 502, 503, 504}

\* new HttpClient({ baseUrl, defaultHeaders, retries, retryStatuses, defaultTimeoutMs }):
\* defaultHeaders is stored as the reference given, retryStatuses is copied
\* into a new Set.
NewHttpClient(defaultHeaders, retries, retryStatuses) ==
    [baseUrl |-> "https://x.test", defaultHeaders |-> defaultHeaders,
     retries |-> retries, retryStatuses |-> retryStatuses,
     defaultTimeoutMs |-> 5000]

\* The state right after construction, with the caller's defaultHeaders object
\* holding `headers`.
Constructed(headers, retries, retryStatuses) ==
    /\ engine = NewHttpClient(OptionsDefaultHeaders, retries, retryStatuses)
    /\ heap = [o \in {OptionsDefaultHeaders} |-> headers]
    /\ constructed = [engine |-> engine, defaultHeaders |-> headers]

RetriesChoices == -1..MaxRetries

RetryStatusChoices == {DefaultRetryStatuses, {}, {200, 204, 503}}

Header(k, v) == [k |-> k, v |-> v]

DefaultHeaderChoices ==
    {<<>>, <<Header("Authorization", Bearer("tB"))>>,
     <<Header("authorization", Bearer("tA")), Header("Content-Type", "text/plain")>>}

\* The statuses and content types the transport answers with.
Responses == [status : {200, 204, 404, 408, 503}, json : BOOLEAN]

FetchFaults == {TypeError, FetchError, OtherError, NonError}

ParseFaults == {SyntaxError, TypeError}

\* Numerators of Math.random(): 0, the smallest and largest steps, and between.
RandSamples ==
    {0, 1, RandDen \div 4, RandDen \div 3, RandDen \div 2,
     RandDen - (RandDen \div 3), RandDen - 2, RandDen - 1}

\* The arguments of the one call of Spec.
Inits ==
    [headers : {<<>>}, json : {FALSE}, authToken : {"tA"}]

\* The numerators of Math.random() the calls draw: both ends of [0, 1).
CallRand == {0, RandDen - 1}

\* The arguments of the concurrent calls of SpecConc.
ConcInits ==
    [headers : {<<>>, <<Header("Authorization", "Basic u")>>}, json : {FALSE},
     authToken : {"tA", "tB"}]

ConcResponses == [status : {200, 503}, json : {FALSE}]

ConcRand == {RandDen \div 2}

\* The state before any backoff probe (SpecBackoff).
NoProbe == [attempt |-> 0, rand |-> 0, delay |-> 0, done |-> FALSE]

\* ------------------------------------------------------- specifications

Init ==
    /\ \E r \in RetriesChoices, s \in RetryStatusChoices : Constructed(<<>>, r, s)
    /\ call = [c \in Calls |-> IdleFrame]
    /\ probe = NoProbe

\* One logical call, every transport outcome.
Next ==
    \E c \in {"c1"} :
        \/ \E init \in Inits : Request(c, init)
        \/ \E response \in Responses, rand \in CallRand :
              FetchResponse(c, response, rand)
        \/ \E error \in FetchFaults, rand \in CallRand : FetchFault(c, error, rand)
        \/ \E rand \in CallRand : FetchAbort(c, rand)
        \/ \E rand \in CallRand : ParseOk(c, rand)
        \/ \E error \in ParseFaults, rand \in CallRand : ParseFault(c, error, rand)
        \/ \E rand \in CallRand : ParseAbort(c, rand)
        \/ BackoffElapsed(c)
        \/ TimerFire(c)

Spec == Init /\ [][Next]_vars

\* An awaited promise settles: the exchange, the body read or the backoff of
\* a call in flight completes, one way or another.
Settles ==
    \E c \in {"c1"} :
        \/ \E response \in Responses, rand \in CallRand :
              FetchResponse(c, response, rand)
        \/ \E error \in FetchFaults, rand \in CallRand : FetchFault(c, error, rand)
        \/ \E rand \in CallRand : FetchAbort(c, rand)
        \/ \E rand \in CallRand : ParseOk(c, rand)
        \/ \E error \in ParseFaults, rand \in CallRand : ParseFault(c, error, rand)
        \/ \E rand \in CallRand : ParseAbort(c, rand)
        \/ BackoffElapsed(c)

\* One logical call whose exchanges and backoffs eventually complete.
SpecLive == Init /\ [][Next]_vars /\ WF_vars(Settles)

InitConc ==
    /\ \E h \in DefaultHeaderChoices : Constructed(h, 1, DefaultRetryStatuses)
    /\ call = [c \in Calls |-> IdleFrame]
    /\ probe = NoProbe

\* Two logical calls through one engine, interleaved at their awaits.
NextConc ==
    \E c \in Calls :
        \/ \E init \in ConcInits : Request(c, init)
        \/ \E response \in ConcResponses, rand \in ConcRand :
              FetchResponse(c, response, rand)
        \/ \E rand \in ConcRand : FetchFault(c, TypeError, rand)
        \/ \E rand \in ConcRand : FetchAbort(c, rand)
        \/ \E rand \in ConcRand : ParseOk(c, rand)
        \/ \E rand \in ConcRand : ParseFault(c, TypeError, rand)
        \/ \E rand \in ConcRand : ParseAbort(c, rand)
        \/ BackoffElapsed(c)
        \/ TimerFire(c)

SpecConc == InitConc /\ [][NextConc]_vars

InitBackoff ==
    /\ Constructed(<<>>, MaxRetries, DefaultRetryStatuses)
    /\ call = [c \in Calls |-> IdleFrame]
    /\ probe \in [attempt : 0..MaxProbeAttempt, rand : RandSamples,
                  delay : {0}, done : {FALSE}]

\* backoff(attempt) computes its delay.
ProbeBackoff ==
    /\ ~probe.done
    /\ probe' = [probe EXCEPT !.delay = Backoff(probe.attempt, probe.rand),
                              !.done = TRUE]
    /\ UNCHANGED <<engine, heap, constructed, call>>

NextBackoff == ProbeBackoff

SpecBackoff == InitBackoff /\ [][NextBackoff]_vars

\* The arguments of the calls of SpecHeaders.
HeaderInits ==
    [headers : {<<>>, <<Header("Authorization", "Basic u")>>,
                <<Header("authorization", "Basic v")>>,
                <<Header("Content-Type", "text/csv")>>},
     json : BOOLEAN, authToken : {NullToken, "", "tA"}]

\* What the caller may write into its defaultHeaders object afterwards.
CallerWrites == {Header("X-Tenant", "b"), Header("Content-Type", "text/xml")}

InitHeaders ==
    /\ \E h \in DefaultHeaderChoices : Constructed(h, 0, DefaultRetryStatuses)
    /\ call = [c \in Calls |-> IdleFrame]
    /\ probe = NoProbe

\* Calls issued through an engine whose caller keeps the defaultHeaders object.
NextHeaders ==
    \/ \E init \in HeaderInits : Request("c1", init)
    \/ \E entry \in CallerWrites : CallerSetsDefaultHeader(entry)

SpecHeaders == InitHeaders /\ [][NextHeaders]_vars

\* ----------------------------------------------------------------- claims

Terminal(f) == f.pc \in {"returned", "thrown", "fellthrough"}

InFlight(f) == f.pc \in {"fetch", "parse", "backoff"}

Last(seq) == seq[Len(seq)]

\* The attempt ended with a response and nothing but its status decided it:
\* no fault of the exchange or of the body read.
StatusOutcome(e) == e.status /= NoStatus /\ e.error \in {"none", "HTTPError"}

\* C1: with retries = r >= 0, one logical call issues at most r + 1 exchanges,
\* whatever the transport answers; max(1, r + 1) bounds it for every r.
C1_AtMostRetriesPlusOne ==
    \A c \in Calls :
        /\ Len(call[c].sent) <= Max(1, engine.retries + 1)
        /\ engine.retries >= 0 => Len(call[c].sent) <= engine.retries + 1

C1_Witness ==
    \E c \in Calls :
        /\ engine.retries = MaxRetries
        /\ Terminal(call[c])
        /\ Len(call[c].sent) = engine.retries + 1

\* Every concluded attempt of the frame got a response whose status is in
\* retryStatuses and is not ok.
AllRetryableErrorStatus(f) ==
    \A i \in 1..Len(f.log) :
        /\ StatusOutcome(f.log[i])
        /\ f.log[i].status \in engine.retryStatuses
        /\ ~Ok(f.log[i].status)

AllTimedOut(f) ==
    \A i \in 1..Len(f.log) :
        f.log[i].status = NoStatus /\ f.log[i].error = "AbortError"

\* C3: when the timer aborts the exchange of every attempt, the call issues
\* exactly maxAttempts exchanges and then throws the abort error; no Response,
\* whole or partial, reaches the caller.
C3_TimeoutExhausts ==
    \A c \in Calls :
        (Terminal(call[c]) /\ AllTimedOut(call[c])) =>
            /\ Len(call[c].sent) = MaxAttemptsOf(engine.retries)
            /\ Len(call[c].log) = Len(call[c].sent)
            /\ call[c].pc = "thrown"
            /\ call[c].outcome.kind = "error"
            /\ call[c].outcome.error = AbortError
            /\ call[c].outcome.data = "none"
            /\ call[c].outcome.status = NoStatus

C3_Witness ==
    \E c \in Calls :
        /\ Terminal(call[c])
        /\ AllTimedOut(call[c])
        /\ Len(call[c].log) = MaxRetries + 1

\* C4 (as claimed): an attempt answered with a not-ok status for which
\* shouldRetry is false ends the call at that attempt, with an error carrying
\* the status and the parsed response, and no further exchange is issued.
C4_StatusErrorIsTerminal ==
    \A c \in Calls :
        \A i \in 1..Len(call[c].log) :
            LET e == call[c].log[i]
            IN  (/\ StatusOutcome(e)
                 /\ ~Ok(e.status)
                 /\ ~ShouldRetry(e.status, i - 1, call[c].maxAttempts)) =>
                    /\ e.decision = "throw"
                    /\ i = Len(call[c].log)
                    /\ Len(call[c].sent) = i
                    /\ call[c].outcome.error.status = e.status
                    /\ call[c].outcome.error.response.status = e.status

\* C5: a Response reaches the caller only from an attempt whose status is ok
\* and either not in retryStatuses or received on the last attempt; the
\* returning attempt is the call's last event: no exchange, backoff or error
\* follows it.
C5_SuccessIsTerminal ==
    \A c \in Calls :
        /\ call[c].outcome.kind = "response" <=> call[c].pc = "returned"
        /\ call[c].pc = "returned" =>
              LET e == Last(call[c].log)
              IN  /\ e.decision = "return"
                  /\ Ok(e.status)
                  /\ call[c].outcome.status = e.status
                  /\ \/ e.status \notin engine.retryStatuses
                     \/ Len(call[c].log) = call[c].maxAttempts
        /\ \A i \in 1..Len(call[c].log) :
              call[c].log[i].decision = "return" =>
                  /\ i = Len(call[c].log)
                  /\ Len(call[c].sent) = i
                  /\ call[c].pc = "returned"
                  /\ call[c].outcome.error = NonError

C5_Witness ==
    \E c \in Calls :
        /\ call[c].pc = "returned"
        /\ Len(call[c].log) = MaxRetries + 1
        /\ Last(call[c].log).status \in engine.retryStatuses

\* C6: a response whose status is in retryStatuses, received on an attempt
\* that is not the last, is discarded (not parsed, not returned, no error) and
\* the call goes to the backoff and then the next attempt, also when the
\* status is ok.
C6_RetryCheckedBeforeOk ==
    \A c \in Calls :
        /\ (/\ call[c].pc = "parse"
            /\ call[c].attempt < call[c].maxAttempts - 1) =>
               call[c].response.status \notin engine.retryStatuses
        /\ \A i \in 1..Len(call[c].log) :
              LET e == call[c].log[i]
              IN  (/\ e.status \in engine.retryStatuses
                   /\ i < call[c].maxAttempts) =>
                      /\ ~e.parsed
                      /\ e.error = "none"
                      /\ e.decision = "retry"
                      /\ \/ call[c].pc = "backoff" /\ call[c].attempt = i - 1
                         \/ Len(call[c].sent) > i

C6_Witness ==
    \E c \in Calls :
        /\ Len(call[c].log) >= 1
        /\ Ok(call[c].log[1].status)
        /\ call[c].log[1].status \in engine.retryStatuses
        /\ call[c].log[1].decision = "retry"
        /\ Len(call[c].sent) = 2

\* C7: every attempt arms one timer and clears it once, whatever way the
\* attempt ends; no timer of a call is pending once the call has ended.
C7_TimerReleasedOnce ==
    \A c \in Calls :
        /\ Len(call[c].timers) = Len(call[c].sent)
        /\ \A i \in 1..Len(call[c].timers) :
              /\ call[c].timers[i].clears <= 1
              /\ (i < Len(call[c].timers) \/ Terminal(call[c])) =>
                    /\ call[c].timers[i].clears = 1
                    /\ call[c].timers[i].state /= "pending"

C7_Witness ==
    \E c \in Calls :
        /\ Terminal(call[c])
        /\ Len(call[c].timers) = MaxRetries + 1
        /\ call[c].timers[1].state = "fired"
        /\ call[c].timers[2].state = "cleared"
        /\ call[c].pc = "returned"

\* C8 (as claimed): while a call waits in the backoff that follows attempt a,
\* the timer armed for attempt a is no longer pending.
C8_TimerReleasedBeforeBackoff ==
    \A c \in Calls :
        call[c].pc = "backoff" =>
            call[c].timers[call[c].attempt + 1].state /= "pending"

\* C9: of two calls in progress through one engine with different tokens,
\* every exchange of each carries that call's token in Authorization and
\* never the other call's.
C9_OwnTokenOnly ==
    \A c \in Calls, d \in Calls :
        (/\ c /= d
         /\ call[c].pc /= "idle" /\ call[d].pc /= "idle"
         /\ Truthy(call[c].init.authToken) /\ Truthy(call[d].init.authToken)
         /\ call[c].init.authToken /= call[d].init.authToken) =>
            \A i \in 1..Len(call[c].sent) :
                /\ HeadersGet(call[c].sent[i], "Authorization")
                      = Bearer(call[c].init.authToken)
                /\ HeadersGet(call[c].sent[i], "Authorization")
                      /= Bearer(call[d].init.authToken)

C9_Witness ==
    /\ InFlight(call["c1"]) /\ InFlight(call["c2"])
    /\ call["c1"].init.authToken = "tA" /\ call["c2"].init.authToken = "tB"
    /\ HasKey(DefaultHeaders, "Authorization")
    /\ Len(call["c1"].sent) = 2 /\ Len(call["c2"].sent) = 2

\* C10: the delay backoff computes for attempt index a is an integer of
\* [0, min(4000, 300 * 2^a)], for every value of the random source.
C10_BackoffWithinBounds ==
    probe.done =>
        /\ probe.delay \in Int
        /\ probe.delay >= 0
        /\ probe.delay <= Min(4000, 300 * 2^probe.attempt)

C10_Witness ==
    /\ probe.done
    /\ probe.attempt >= 4
    /\ probe.delay = 4000

\* The value an object gives a header, whatever the case of its key ("" when
\* it has none).
HeaderOf(obj, name) ==
    IF \E i \in 1..Len(obj) : Lower(obj[i].k) = Lower(name)
    THEN obj[CHOOSE i \in 1..Len(obj) : Lower(obj[i].k) = Lower(name)].v
    ELSE ""

\* C11 (as claimed): with a token the exchange carries Authorization: Bearer
\* <token>, over any Authorization of the default and per-call headers;
\* without one it carries the per-call Authorization if there is one, else
\* the default one.
C11_TokenThenPerCallThenDefault ==
    \A c \in Calls :
        \A i \in 1..Len(call[c].sent) :
            HeadersGet(call[c].sent[i], "Authorization") =
                IF Truthy(call[c].init.authToken)
                THEN Bearer(call[c].init.authToken)
                ELSE IF HeaderOf(call[c].init.headers, "Authorization") /= ""
                THEN HeaderOf(call[c].init.headers, "Authorization")
                ELSE HeaderOf(call[c].defaults, "Authorization")

\* C12 (as claimed): a 204 response yields a success result with an undefined
\* body and status 204, whatever its content type.
C12_NoContentSucceeds ==
    \A c \in Calls :
        \A i \in 1..Len(call[c].log) :
            call[c].log[i].status = 204 =>
                /\ call[c].log[i].decision = "return"
                /\ call[c].outcome.kind = "response"
                /\ call[c].outcome.data = "undefined"
                /\ call[c].outcome.status = 204

\* C12 (amended): a 204 response that shouldRetry does not send to a retry
\* (204 not in retryStatuses, or the last attempt) yields a success result
\* with an undefined body and status 204, whatever its content type; no
\* decoding takes place, so no fault of the body read can replace it.
C12_NoContentSucceedsUnlessRetried ==
    \A c \in Calls :
        \A i \in 1..Len(call[c].log) :
            LET e == call[c].log[i]
            IN  /\ (e.status = 204 /\ e.decision = "retry") =>
                      /\ 204 \in engine.retryStatuses
                      /\ i < call[c].maxAttempts
                      /\ ~e.parsed
                /\ (/\ e.status = 204
                    /\ ~(204 \in engine.retryStatuses /\ i < call[c].maxAttempts)) =>
                      /\ e.error = "none"
                      /\ e.decision = "return"
                      /\ i = Len(call[c].log)
                      /\ call[c].outcome.kind = "response"
                      /\ call[c].outcome.data = "undefined"
                      /\ call[c].outcome.status = 204

C12_Witness ==
    \E c \in Calls :
        /\ call[c].pc = "returned"
        /\ call[c].response = [status |-> 204, json |-> TRUE]
        /\ call[c].outcome.data = "undefined"
        /\ call[c].timers[Len(call[c].timers)].state = "fired"

\* The attempt ended with a fault caught from the exchange or the body read
\* (anything caught but the HTTPError thrown for a not-ok status).
FaultEntry(e) == e.error /= "none" /\ ~(e.error = "HTTPError" /\ e.status /= NoStatus)

\* C13: a fault is retried only if it is an abort (timeout) or a network
\* fault and the attempt is not the last; any other fault, a parse failure
\* among them, ends the call at its attempt whatever attempts remain, and the
\* caller gets the caught error itself, wrapped in HTTPError only when it is
\* no Error.
C13_OnlyTransientFaultsRetried ==
    \A c \in Calls :
        \A i \in 1..Len(call[c].log) :
            LET e == call[c].log[i]
            IN  FaultEntry(e) =>
                  /\ e.decision = "retry" =>
                        /\ e.error \in {"AbortError", "TypeError", "FetchError"}
                        /\ i < call[c].maxAttempts
                  /\ e.error \notin {"AbortError", "TypeError", "FetchError"} =>
                        e.decision = "throw"
                  /\ e.decision = "throw" =>
                        /\ i = Len(call[c].log)
                        /\ Len(call[c].sent) = i
                        /\ call[c].pc = "thrown"
                        /\ call[c].outcome.error =
                              IF call[c].lastError.isError THEN call[c].lastError
                              ELSE HTTPError(NoStatus, NoResponse)
                        /\ call[c].lastError.isError =>
                              call[c].lastError.name = e.error

C13_Witness ==
    \E c \in Calls :
        /\ call[c].maxAttempts = MaxRetries + 1
        /\ Len(call[c].log) = 1
        /\ call[c].log[1].error = "SyntaxError"
        /\ call[c].pc = "thrown"
        /\ call[c].outcome.error = SyntaxError

\* C14: a timer that fires aborts only the exchange of the attempt that armed
\* it: an attempt ends with an abort only if its own timer fired, and a timer
\* is pending (able to fire) only during the iteration of its own attempt,
\* so never during a later attempt; this holds for each of two concurrent
\* calls, also when the timer fires after the response or during the backoff.
C14_AbortScopedToAttempt ==
    \A c \in Calls :
        /\ \A i \in 1..Len(call[c].log) :
              call[c].log[i].error = "AbortError" =>
                  call[c].timers[i].state = "fired"
        /\ \A i \in 1..Len(call[c].timers) :
              call[c].timers[i].state = "pending" =>
                  /\ i = call[c].attempt + 1
                  /\ InFlight(call[c])

C14_Witness ==
    /\ call["c1"].pc = "returned"
    /\ Len(call["c1"].log) = 2
    /\ call["c1"].timers[1].state = "fired"
    /\ call["c1"].log[1].error = "none"
    /\ call["c1"].timers[2].state = "cleared"
    /\ call["c2"].pc = "parse"
    /\ call["c2"].timers[1].state = "pending"

\* Exchanges issued and attempts concluded differ by the one exchange in
\* flight, which exists exactly while the call fetches or parses.
SequentialFrame(f) ==
    /\ Len(f.log) <= Len(f.sent)
    /\ Len(f.sent) <= Len(f.log) + 1
    /\ Len(f.sent) = Len(f.log) + 1 <=> f.pc \in {"fetch", "parse"}
    /\ f.pc /= "idle" => f.attempt = Len(f.sent) - 1

\* C15: the attempts of a call are sequential: at most one exchange of the
\* call is in flight, and an exchange is issued only by the step that starts
\* the call or ends a backoff wait, every earlier attempt having concluded.
C15_AttemptsSequential ==
    [][\A c \in Calls :
          /\ SequentialFrame(call[c])'
          /\ Len(call[c].sent') > Len(call[c].sent) =>
                /\ call[c].pc \in {"idle", "backoff"}
                /\ Len(call[c].sent') = Len(call[c].sent) + 1
                /\ Len(call[c].log) = Len(call[c].sent)]_vars

C15_Witness ==
    /\ call["c1"].pc = "fetch"
    /\ Len(call["c1"].sent) = 2
    /\ call["c1"].log[1].decision = "retry"
    /\ call["c2"].pc = "backoff"

\* C16: the throw after the loop is never reached: the attempt of index
\* maxAttempts - 1 always ends in the return or a throw inside the loop,
\* whatever the configuration and the transport's answers.
C16_FallbackUnreachable ==
    \A c \in Calls :
        /\ call[c].pc /= "fellthrough"
        /\ (call[c].pc /= "idle" /\ Len(call[c].log) = call[c].maxAttempts) =>
              /\ Last(call[c].log).decision \in {"return", "throw"}
              /\ call[c].pc \in {"returned", "thrown"}
        /\ call[c].pc = "backoff" => call[c].attempt < call[c].maxAttempts - 1

C16_Witness ==
    \E c \in Calls :
        /\ call[c].maxAttempts = MaxRetries + 1
        /\ Len(call[c].log) = call[c].maxAttempts
        /\ Last(call[c].log).error = "TypeError"
        /\ call[c].pc = "thrown"

\* C17 (as claimed): the engine keeps the header map by value: whatever the
\* caller writes into its defaultHeaders object after construction, every
\* exchange carries the headers built from the map as it was at construction.
C17_DefaultHeadersByValue ==
    \A c \in Calls :
        \A i \in 1..Len(call[c].sent) :
            call[c].sent[i] =
                BuildHeadersFrom(constructed.defaultHeaders, call[c].init)

\* C18: no request touches the engine's state: through any interleaving of
\* calls, baseUrl, defaultHeaders (the reference and the map it names),
\* retries, retryStatuses and defaultTimeoutMs equal the values they had right
\* after construction.
C18_EngineStateUntouched ==
    /\ engine = constructed.engine
    /\ heap[engine.defaultHeaders] = constructed.defaultHeaders

\* Both calls have finished, one of them after a retry, and one of them sent
\* per-call headers of its own.
C18_Witness ==
    /\ \A c \in Calls : Terminal(call[c])
    /\ \E c \in Calls : Len(call[c].log) > 1
    /\ \E c \in Calls : call[c].init.headers /= <<>>
    /\ C18_EngineStateUntouched

\* The state of a call in the terms of the request state machine.
Phase(f) ==
    CASE f.pc = "idle" -> "Idle"
      [] f.pc \in {"fetch", "parse"} -> "Attempting"
      [] f.pc = "backoff" -> "RetryPending"
      [] f.pc = "returned" -> "Success"
      [] OTHER -> "Failed"

PhaseSteps ==
    {<<"Idle", "Attempting">>, <<"Attempting", "RetryPending">>,
     <<"RetryPending", "Attempting">>, <<"Attempting", "Success">>,
     <<"Attempting", "Failed">>}

\* One step of a call from frame f to frame g.
StateMachineStep(f, g) ==
    /\ Phase(g) /= Phase(f) => <<Phase(f), Phase(g)>> \in PhaseSteps
    /\ Phase(g) = Phase(f) => /\ Len(g.sent) = Len(f.sent)
                              /\ Len(g.log) = Len(f.log)
                              /\ g.delay = f.delay
    \* the first attempt follows no backoff
    /\ Phase(f) = "Idle" /\ Phase(g) = "Attempting" =>
           /\ f.log = <<>> /\ f.delay = 0
           /\ Len(g.sent) = 1 /\ g.attempt = 0
    \* a backoff follows a concluded attempt that is not the last one, and its
    \* delay is drawn for the index of that attempt
    /\ Phase(g) = "RetryPending" /\ Phase(f) /= "RetryPending" =>
           /\ Len(g.log) = Len(f.log) + 1
           /\ Len(g.sent) = Len(g.log)
           /\ Len(g.log) < g.maxAttempts
           /\ Last(g.log).decision = "retry"
           /\ g.delay \in {Backoff(Len(g.log) - 1, r) : r \in CallRand}
    \* every later attempt follows that one backoff
    /\ Phase(f) = "RetryPending" /\ Phase(g) = "Attempting" =>
           /\ Len(g.sent) = Len(f.sent) + 1
           /\ g.log = f.log
           /\ g.attempt = Len(f.log)
    \* a terminal outcome concludes an attempt without a backoff
    /\ Phase(g) \in {"Success", "Failed"} /\ Phase(f) = "Attempting" =>
           /\ Len(g.log) = Len(f.log) + 1
           /\ Len(g.sent) = Len(g.log)
           /\ Last(g.log).decision \in {"return", "throw"}
           /\ g.delay = 0
    \* nothing follows a terminal outcome
    /\ Phase(f) \in {"Success", "Failed"} => g = f

\* C19: a call runs Attempting -> RetryPending -> Attempting ... and ends in
\* Success or Failed; every attempt after the first follows exactly one
\* backoff, whose delay is computed from the index of the attempt that just
\* concluded; there is no backoff before the first attempt, after the last
\* one, or after a terminal outcome.
C19_StateMachine ==
    [][\A c \in Calls : StateMachineStep(call[c], call'[c])]_vars

\* A call waits in its second backoff, with the longest delay the index of
\* the second attempt allows, after a first backoff and two attempts.
C19_Witness ==
    \E c \in Calls :
        /\ Phase(call[c]) = "RetryPending"
        /\ Len(call[c].log) = 2
        /\ Len(call[c].sent) = 2
        /\ call[c].delay = Backoff(1, RandDen - 1)
        /\ call[c].delay > BackoffBase

\* A call that has finished holds the one outcome its pc names; a call that
\* has not holds none.
OneOutcome(f) ==
    /\ Terminal(f) => /\ f.outcome /= NoOutcome
                      /\ f.outcome.kind = "response" <=> f.pc = "returned"
                      /\ f.outcome.kind = "error" <=> f.pc /= "returned"
    /\ ~Terminal(f) => f.outcome = NoOutcome

\* C20: if exchanges and backoffs eventually complete, every call made
\* eventually reaches a terminal outcome, exactly one, and after it the call
\* makes no further attempt and its outcome never changes.
C20_EventuallyOneOutcome ==
    /\ \A c \in Calls : InFlight(call[c]) ~> Terminal(call[c])
    /\ [](\A c \in Calls : OneOutcome(call[c]))
    /\ [][\A c \in Calls : Terminal(call[c]) => call'[c] = call[c]]_vars

\* A call has finished after using every attempt it had, two backoffs between
\* them.
C20_Witness ==
    \E c \in Calls :
        /\ Terminal(call[c])
        /\ call[c].maxAttempts = 3
        /\ Len(call[c].sent) = 3
        /\ OneOutcome(call[c])

====
